---- MODULE Spec2Model ----
(***************************************************************************)
(* OpenCowork: the step-execution engine (opencowork/agent/executor.py),   *)
(* the built-in file tool it dispatches to (opencowork/tools/filesystem.py)*)
(* the command tool (opencowork/tools/sandbox_tools.py) and the folder     *)
(* rules of the Policy Engine (opencowork/sandbox/permissions.py).         *)
(*                                                                         *)
(* One run of Executor.execute is modelled at the granularity of its       *)
(* await points: a step either completes without yielding (pseudo-actions, *)
(* the synchronous file tools, an unknown action) or is in flight between  *)
(* its dispatch and the return, failure or deadline of its invocation.     *)
(*                                                                         *)
(* The specifications of the module share its variables. Spec is a run of  *)
(* the Executor and SpecLive the same run under a fair event loop;         *)
(* SpecTask is a run on a validated plan while a cancellation request may  *)
(* arrive and the clock may pass max_execution_time; SpecPlanner is the    *)
(* Planner (opencowork/agent/planner.py) producing and validating a plan;  *)
(* SpecPolicy is a PermissionManager answering calls and SpecAudit its     *)
(* audit log; SpecSandbox is a DockerSandbox                               *)
(* (opencowork/sandbox/docker_runner.py) running commands against the      *)
(* container engine; SpecApi is the task API                               *)
(* (opencowork/api/server_impl.py, opencowork/api/session.py).             *)
(***************************************************************************)
EXTENDS Integers, Sequences, FiniteSets, TLC

\* Longest plan handed to Executor.execute; step numbers range over 1..MaxSteps.
MaxSteps == 3

----------------------------------------------------------------------------
(* State *)

\* One run of Executor.execute.
VARIABLES
    plan,          \* plan.steps, mutated in place by execute
    observations,  \* context.observations: step number -> result
    errors,        \* context.errors
    pc,            \* where execute is: "loop", "await", "break", "returned"
    i,             \* position in plan.steps of the step the loop is at
    execResult,    \* the ExecutionResult execute returns
    fs,            \* the files that exist
    inflight,      \* positions of the steps whose invocation is suspended
    dispatchLog,   \* positions of the steps the loop has started, in order
    invoked,       \* positions of the steps whose registry tool was called
    cancelled      \* positions of the invocations wait_for has cancelled

\* One PermissionManager.
VARIABLES
    policy,          \* self.policy: folders (in dict order) and tools
    confirm_handler, \* self.confirm_handler
    _audit_log,      \* self._audit_log
    logged,          \* the entries handed to log_action, in call order
    returned,        \* the lists get_audit_log handed out, as their holders have them
    decision         \* the last call made on the manager and what it returned

\* One DockerSandbox and the container engine behind it.
VARIABLES
    remove_after,  \* config.remove_after
    engine,        \* whether the container engine is reachable now
    sandbox,       \* the DockerSandbox object: constructed or not, and what "docker version" said
    host_runs,     \* ids of the commands run outside a container
    call,          \* the run_command invocation: its container id, where it is, its outcome
    clients,       \* ids whose "docker run" process is alive
    containers,    \* ids whose container exists in the engine
    created        \* ids whose container the engine has ever created

\* What the API server knows about the task the run belongs to.
VARIABLES
    cancel_requested, \* cancellation of the task has been requested
    over_max_time,    \* time.time() - start_time exceeds self.max_execution_time
    _sessions,        \* session_manager._sessions: task id -> TaskSession
    _running_tasks,   \* OpenCoworkAPI._running_tasks
    responses         \* what the API answered to the calls so far, in order

\* One Planner and the plan it was asked for.
VARIABLES
    llm_service,   \* self.llm_service and self.use_llm: a planning service is in use
    planner_tools, \* self.tools: the names of the tools the Planner knows
    plan_data,     \* what llm_service.generate_plan does when called
    planned,       \* the Plan returned by Planner.plan
    validated      \* the answer of _validate_plan on that Plan

execvars ==
    <<plan, observations, errors, pc, i, execResult, fs, inflight, dispatchLog,
      invoked, cancelled>>

pmvars == <<policy, confirm_handler, _audit_log, logged, returned, decision>>

sbvars == <<remove_after, engine, sandbox, host_runs, call, clients, containers, created>>

apistore == <<_sessions, _running_tasks, responses>>

apivars == <<cancel_requested, over_max_time, apistore>>

plvars == <<llm_service, planner_tools, plan_data, planned, validated>>

vars == <<execvars, apivars, plvars, pmvars, sbvars>>

----------------------------------------------------------------------------
(* Data model: opencowork/core.py *)

StepStatus == {"pending", "running", "success", "failed", "skipped"}

ExecutionStatus ==
    {"pending", "running", "success", "failed", "timeout", "cancelled", "permission_denied"}

\* A tool result payload; NoResult is Python's None.
NoResult == [status |-> "none", payload |-> "none"]

NoError == "none"

\* Paths are sequences of components; NoPath stands for "no path argument".
NoPath == <<>>

FileA == <<"a", "f">>

FileB == <<"b", "g">>

Files == {FileA, FileB}

----------------------------------------------------------------------------
(* Policy Engine: opencowork/sandbox/permissions.py *)

\* Longest list of folder rules a policy is built from.
MaxRules == 2

AccessLevel == {"none", "read", "read_write"}

IsPrefix(p, q) ==
    /\ Len(p) <= Len(q)
    /\ \A n \in 1..Len(p) : p[n] = q[n]

\* Path(p).resolve(): "." is dropped and ".." removes the component before it.
RECURSIVE resolve(_)
resolve(p) ==
    IF p = <<>> THEN <<>>
    ELSE LET front == resolve(SubSeq(p, 1, Len(p) - 1))
             last == p[Len(p)]
         IN  IF last = "." THEN front
             ELSE IF last = ".."
                  THEN IF front = <<>> THEN <<>> ELSE SubSeq(front, 1, Len(front) - 1)
                  ELSE Append(front, last)

\* len(str(path)) of a resolved path: "/" for the root, else a separator and
\* a one-character name per component.
str_len(p) == IF p = <<>> THEN 1 ELSE 2 * Len(p)

FolderPolicy(path, access, allow_delete, require_confirmation) ==
    [path |-> path, access |-> access, allow_delete |-> allow_delete,
     require_confirmation |-> require_confirmation]

ToolPolicy(tool, enabled, require_confirmation) ==
    [tool |-> tool, enabled |-> enabled, require_confirmation |-> require_confirmation]

\* self.folders = {p.path: p for p in folders}: the dict in insertion order;
\* a rule for a path already present replaces the value in place.
RECURSIVE folders_dict(_)
folders_dict(rules) ==
    IF rules = <<>> THEN <<>>
    ELSE LET d == folders_dict(SubSeq(rules, 1, Len(rules) - 1))
             r == rules[Len(rules)]
         IN  IF \E n \in 1..Len(d) : d[n].path = r.path
             THEN [n \in 1..Len(d) |-> IF d[n].path = r.path THEN r ELSE d[n]]
             ELSE Append(d, r)

\* The folder rules the Executor's run is configured with: /a is writable but
\* not deletable, /b is writable and deletable.
ExecPolicy ==
    << FolderPolicy(<<"a">>, "read_write", FALSE, FALSE),
       FolderPolicy(<<"b">>, "read_write", TRUE, FALSE) >>

\* The loop of _get_folder_policy over the first n entries of the dict: the
\* match kept so far is replaced only by a strictly longer one. {} is None.
RECURSIVE best_match(_, _, _)
best_match(folders, n, file_path) ==
    IF n = 0 THEN {}
    ELSE LET best == best_match(folders, n - 1, file_path)
             policy_path_resolved == resolve(folders[n].path)
         IN  IF /\ IsPrefix(policy_path_resolved, file_path)
                /\ \A kept \in best :
                     str_len(policy_path_resolved) > str_len(resolve(kept.path))
             THEN {folders[n]}
             ELSE best

\* _get_folder_policy answering with the first rule of the dict that matches.
_get_folder_policy_first(folders, file_path) ==
    LET matching == {n \in 1..Len(folders) :
                        IsPrefix(resolve(folders[n].path), resolve(file_path))}
    IN  IF matching = {} THEN {}
        ELSE {folders[CHOOSE n \in matching : \A m \in matching : n <= m]}

\* The rule governing file_path as a set: {} if none matches.
_get_folder_policy(folders, file_path) ==
    best_match(folders, Len(folders), resolve(file_path))

\* _get_access_level with read as the level of a path no rule governs.
_get_access_level_default_read(folders, file_path) ==
    LET folder_policy == _get_folder_policy(folders, file_path)
    IN  IF folder_policy = {} THEN "read"
        ELSE (CHOOSE r \in folder_policy : TRUE).access

_get_access_level(folders, file_path) ==
    LET folder_policy == _get_folder_policy(folders, file_path)
    IN  IF folder_policy = {} THEN "none"
        ELSE (CHOOSE r \in folder_policy : TRUE).access

\* can_read_file answering true for read-only folders alone.
can_read_file_read_only(folders, file_path) ==
    _get_access_level(folders, file_path) = "read"

can_read_file(folders, file_path) ==
    _get_access_level(folders, file_path) \in {"read", "read_write"}

can_write_file(folders, file_path) ==
    _get_access_level(folders, file_path) = "read_write"

\* can_delete_file asking for the allow_delete flag alone.
can_delete_file_flag_only(folders, file_path) ==
    LET folder_policy == _get_folder_policy(folders, file_path)
    IN  /\ folder_policy # {}
        /\ \A r \in folder_policy : r.allow_delete

can_delete_file(folders, file_path) ==
    LET folder_policy == _get_folder_policy(folders, file_path)
    IN  /\ folder_policy # {}
        /\ \A r \in folder_policy : r.access = "read_write" /\ r.allow_delete

\* can_use_tool refusing a tool that has no rule.
can_use_tool_deny_unlisted(tools, tool_name) ==
    IF tool_name \notin DOMAIN tools THEN FALSE ELSE tools[tool_name].enabled

\* tools is the dict self.policy.tools: tool name -> ToolPolicy.
can_use_tool(tools, tool_name) ==
    IF tool_name \notin DOMAIN tools THEN TRUE ELSE tools[tool_name].enabled

\* The action kinds requires_confirmation is asked about.
ActionKinds == {"read", "write", "delete", "tool_use"}

\* requires_confirmation consulting the folder rule for every file action.
requires_confirmation_any_file_action(folders, tools, action, resource) ==
    IF action \in {"read", "write", "delete"} /\ _get_folder_policy(folders, resource) # {}
    THEN (CHOOSE r \in _get_folder_policy(folders, resource) : TRUE).require_confirmation
    ELSE IF action = "tool_use" /\ resource \in DOMAIN tools
         THEN tools[resource].require_confirmation
         ELSE FALSE

\* The folder branch returns only when a rule governs the resource; otherwise
\* control falls through to the tool branch and the final return False.
requires_confirmation(folders, tools, action, resource) ==
    IF action \in {"write", "delete"} /\ _get_folder_policy(folders, resource) # {}
    THEN (CHOOSE r \in _get_folder_policy(folders, resource) : TRUE).require_confirmation
    ELSE IF action = "tool_use" /\ resource \in DOMAIN tools
         THEN tools[resource].require_confirmation
         ELSE FALSE

\* What a confirmation callback hands back: its answer, or (a coroutine
\* function) an awaitable that yields the answer.
HandlerKinds == {"none", "sync", "async"}

handler_result(handler, answer) ==
    [awaitable |-> handler = "async", value |-> answer]

\* The awaitable handed on as it is.
not_awaited(result) == result

\* await result
awaited(result) == [awaitable |-> FALSE, value |-> result.value]

request_confirmation(handler, answer) ==
    IF handler = "none" THEN [awaitable |-> FALSE, value |-> FALSE]
    ELSE LET result == handler_result(handler, answer)
         IN  IF result.awaitable THEN awaited(result) ELSE result

\* The inputs of the Policy Engine.
RulePaths == {<<"a">>, <<"a", "b">>, <<"a", ".">>}

FolderRules ==
    { FolderPolicy(p, a, d, c) :
        p \in RulePaths, a \in AccessLevel, d \in BOOLEAN, c \in BOOLEAN }

RuleLists == UNION { [1..len -> FolderRules] : len \in 0..MaxRules }

ToolNames == {"run_command", "file_delete"}

NoTools == [t \in {} |-> ToolPolicy(t, TRUE, FALSE)]

ToolDicts ==
    {NoTools} \cup
    { [t \in {"run_command"} |-> ToolPolicy(t, e, c)] : e \in BOOLEAN, c \in BOOLEAN }

TargetPaths ==
    { <<"a", "b", "c">>, <<"a", "x">>, <<"a", "b", "..", "x">>, <<"c", "y">> }

NoDecision == [call |-> "none"]

\* PermissionPolicy.__init__ and PermissionManager.__init__: a manager built
\* from any list of folder rules, or one with tool rules and a callback.
PermissionManagerInit ==
    /\ \/ /\ policy \in [folders : {folders_dict(l) : l \in RuleLists}, tools : {NoTools}]
          /\ confirm_handler = "none"
       \/ /\ policy \in [folders : {ExecPolicy}, tools : ToolDicts]
          /\ confirm_handler \in HandlerKinds
    /\ _audit_log = <<>>
    /\ logged = <<>>
    /\ returned = <<>>
    /\ decision = NoDecision

\* The manager the Executor's run is configured with.
PermissionManagerOfRun ==
    /\ policy = [folders |-> ExecPolicy, tools |-> NoTools]
    /\ confirm_handler = "none"
    /\ _audit_log = <<>>
    /\ logged = <<>>
    /\ returned = <<>>
    /\ decision = NoDecision

\* What a call was about and what it returned. answer is what the confirmation
\* callback said, where one was called.
Decision(name, resource, answer, result) ==
    [call |-> name, resource |-> resource, answer |-> answer, result |-> result]

CanReadFile ==
    \E file_path \in TargetPaths :
        /\ decision' = Decision("can_read_file", file_path, FALSE,
                                can_read_file(policy.folders, file_path))
        /\ UNCHANGED <<policy, confirm_handler, _audit_log, logged, returned,
                         execvars, apivars, plvars, sbvars>>

CanWriteFile ==
    \E file_path \in TargetPaths :
        /\ decision' = Decision("can_write_file", file_path, FALSE,
                                can_write_file(policy.folders, file_path))
        /\ UNCHANGED <<policy, confirm_handler, _audit_log, logged, returned,
                         execvars, apivars, plvars, sbvars>>

CanDeleteFile ==
    \E file_path \in TargetPaths :
        /\ decision' = Decision("can_delete_file", file_path, FALSE,
                                can_delete_file(policy.folders, file_path))
        /\ UNCHANGED <<policy, confirm_handler, _audit_log, logged, returned,
                         execvars, apivars, plvars, sbvars>>

CanUseTool ==
    \E tool_name \in ToolNames :
        /\ decision' = Decision("can_use_tool", tool_name, FALSE,
                                can_use_tool(policy.tools, tool_name))
        /\ UNCHANGED <<policy, confirm_handler, _audit_log, logged, returned,
                         execvars, apivars, plvars, sbvars>>

\* request_confirmation(message); answer is what the callback, if called, says.
RequestConfirmation ==
    \E answer \in BOOLEAN :
        /\ confirm_handler = "none" => answer = FALSE
        /\ decision' = Decision("request_confirmation", "message", answer,
                                request_confirmation(confirm_handler, answer))
        /\ UNCHANGED <<policy, confirm_handler, _audit_log, logged, returned,
                         execvars, apivars, plvars, sbvars>>

\* requires_confirmation(action, resource): a file action on a path, or
\* tool_use on a tool name.
RequiresConfirmation ==
    \E action \in ActionKinds :
        \E resource \in IF action = "tool_use" THEN ToolNames ELSE TargetPaths :
            /\ decision' = [call |-> "requires_confirmation", action |-> action,
                            resource |-> resource, answer |-> FALSE,
                            result |-> requires_confirmation(policy.folders, policy.tools,
                                                             action, resource)]
            /\ UNCHANGED <<policy, confirm_handler, _audit_log, logged, returned,
                         execvars, apivars, plvars, sbvars>>

\* Longest audit log, and most lists a caller holds at once.
MaxLog == 3

MaxHeld == 2

AuditStatus == {"allowed", "denied"}

\* entry = {"action": ..., "resource": ..., "status": ..., "details": details or {}}
AuditEntry(action, resource, status) ==
    [action |-> action, resource |-> resource, status |-> status, details |-> <<>>]

\* self._audit_log.append(entry)
log_action(log, action, resource, status) ==
    Append(log, AuditEntry(action, resource, status))

\* get_audit_log handing out self._audit_log itself.
get_audit_log_shared(log) ==
    [shared |-> TRUE, items |-> <<>>, at_return |-> log]

\* self._audit_log.copy(): a new list with the entries of the log. shared
\* tells whether the list handed out is the manager's own list object.
get_audit_log(log) ==
    [shared |-> FALSE, items |-> log, at_return |-> log]

\* The entries of a list that was handed out, as its holder sees them now.
Contents(list) == IF list.shared THEN _audit_log ELSE list.items

\* An entry a holder puts into a list it was handed.
Forged == AuditEntry("delete", "forged", "allowed")

LogAction ==
    \E action \in {"write"}, status \in AuditStatus :
        /\ Len(_audit_log) < MaxLog
        /\ _audit_log' = log_action(_audit_log, action, "resource", status)
        /\ logged' = Append(logged, AuditEntry(action, "resource", status))
        /\ UNCHANGED <<policy, confirm_handler, returned, decision,
                       execvars, apivars, plvars, sbvars>>

GetAuditLog ==
    /\ Len(returned) < MaxHeld
    /\ returned' = Append(returned, get_audit_log(_audit_log))
    /\ UNCHANGED <<policy, confirm_handler, _audit_log, logged, decision,
                   execvars, apivars, plvars, sbvars>>

\* The holder of a list it got from get_audit_log appends to it or pops its
\* last entry; a list that is the manager's own changes the manager's log.
HolderChangesList ==
    \E k \in DOMAIN returned, change \in {"append", "pop"} :
        LET cur == Contents(returned[k])
            new == IF change = "append" THEN Append(cur, Forged)
                   ELSE SubSeq(cur, 1, Len(cur) - 1)
        IN  /\ change = "pop" => cur # <<>>
            /\ Len(new) <= MaxLog
            /\ IF returned[k].shared
               THEN _audit_log' = new /\ UNCHANGED returned
               ELSE /\ returned' = [returned EXCEPT ![k].items = new]
                    /\ UNCHANGED _audit_log
            /\ UNCHANGED <<policy, confirm_handler, logged, decision,
                           execvars, apivars, plvars, sbvars>>

AuditNext ==
    \/ LogAction
    \/ GetAuditLog
    \/ HolderChangesList

PolicyNext ==
    \/ CanReadFile
    \/ CanWriteFile
    \/ CanDeleteFile
    \/ CanUseTool
    \/ RequestConfirmation
    \/ RequiresConfirmation

----------------------------------------------------------------------------
(* Sandbox Runtime: opencowork/sandbox/docker_runner.py *)

\* run_command invocations made on one sandbox.
MaxRuns == 2

ExitCodes == {0, 1}

NoOutcome == [kind |-> "none"]

\* No invocation yet. pc is where run_command is: "wait_for" (awaiting
\* _execute_docker), "finally", "unwound" (the finally clause has run),
\* "delivered" (the caller has the result or the exception).
NoCall == [id |-> 0, pc |-> "idle", outcome |-> NoOutcome, cleanup |-> "none"]

\* No DockerSandbox has been constructed.
NoSandbox == [state |-> "none", docker_version |-> "not run"]

DockerSandboxInit ==
    /\ remove_after \in BOOLEAN
    /\ engine \in BOOLEAN
    /\ sandbox = NoSandbox
    /\ host_runs = {}
    /\ call = NoCall
    /\ clients = {}
    /\ containers = {}
    /\ created = {}

\* No sandbox is in use.
SandboxOff ==
    /\ remove_after = TRUE
    /\ engine = TRUE
    /\ sandbox = NoSandbox
    /\ host_runs = {}
    /\ call = NoCall
    /\ clients = {}
    /\ containers = {}
    /\ created = {}

\* _verify_docker accepting whatever "docker version" says.
_verify_docker_unchecked(reachable) ==
    [state |-> "ready", docker_version |-> IF reachable THEN "ok" ELSE "failed"]

\* _verify_docker: "docker version" ends non-zero, is not found or does not
\* answer when the engine is unreachable, and RuntimeError leaves __init__.
_verify_docker(reachable) ==
    IF reachable
    THEN [state |-> "ready", docker_version |-> "ok"]
    ELSE [state |-> "refused", docker_version |-> "failed"]

\* DockerSandbox(config), a first time or again after a refusal.
Construct ==
    /\ sandbox.state \in {"none", "refused"}
    /\ sandbox' = _verify_docker(engine)
    /\ UNCHANGED <<remove_after, engine, host_runs, call, clients, containers,
                   created, execvars, apivars, plvars, pmvars>>

\* The engine becomes unreachable, or reachable again.
EngineChanges ==
    /\ engine' = ~engine
    /\ UNCHANGED <<remove_after, sandbox, host_runs, call, clients, containers,
                   created, execvars, apivars, plvars, pmvars>>

CanRun ==
    /\ sandbox.state = "ready"
    /\ call.pc \in {"idle", "delivered"}
    /\ call.id < MaxRuns

\* container_id = uuid4()[:12]; _execute_docker started "docker run --name
\* container_id --rm ..." and run_command awaits it under wait_for.
RunCommandBegin ==
    /\ CanRun
    /\ call' = [id |-> call.id + 1, pc |-> "wait_for", outcome |-> NoOutcome,
                cleanup |-> "none"]
    /\ clients' = clients \cup {call.id + 1}
    /\ UNCHANGED <<remove_after, engine, sandbox, host_runs, containers, created,
                   execvars, apivars, plvars, pmvars>>

\* create_subprocess_exec raised: _execute_docker raises RuntimeError, and
\* nothing is run in its place.
ExecuteDockerFails ==
    /\ CanRun
    /\ call' = [id |-> call.id + 1, pc |-> "finally",
                outcome |-> [kind |-> "raised", error |-> "RuntimeError"],
                cleanup |-> "none"]
    /\ UNCHANGED <<remove_after, engine, sandbox, host_runs, clients, containers,
                   created, execvars, apivars, plvars, pmvars>>

\* The engine created and started the container a live "docker run" asked for.
ContainerStarts ==
    \E id \in clients \ created :
        /\ engine
        /\ containers' = containers \cup {id}
        /\ created' = created \cup {id}
        /\ UNCHANGED <<remove_after, engine, sandbox, host_runs, call, clients,
                       execvars, apivars, plvars, pmvars>>

\* "docker run" ended: the command exited and --rm removed the container, or
\* there is no container (never started, or removed) and it ends non-zero. An
\* invocation still awaiting it gets the return code.
DockerRunExits ==
    \E id \in clients, returncode \in ExitCodes :
        /\ id \in containers => engine
        /\ id \notin containers => returncode # 0
        /\ clients' = clients \ {id}
        /\ containers' = containers \ {id}
        /\ call' = IF call.id = id /\ call.pc = "wait_for"
                   THEN [call EXCEPT !.pc = "finally",
                                     !.outcome = [kind |-> "returned",
                                                  returncode |-> returncode]]
                   ELSE call
        /\ UNCHANGED <<remove_after, engine, sandbox, host_runs, created,
                       execvars, apivars, plvars, pmvars>>

\* wait_for's deadline: the await is cancelled, "docker run" is left alive,
\* TimeoutError is raised.
SandboxDeadline ==
    /\ call.pc = "wait_for"
    /\ call' = [call EXCEPT !.pc = "finally",
                            !.outcome = [kind |-> "raised", error |-> "TimeoutError"]]
    /\ UNCHANGED <<remove_after, engine, sandbox, host_runs, clients, containers,
                   created, execvars, apivars, plvars, pmvars>>

\* The caller's own deadline (the Executor's wait_for around tool.execute)
\* cancels the invocation while run_command awaits: CancelledError is thrown
\* into it, passes its except clause and leaves through the finally clause.
InvocationCancelled ==
    /\ call.pc = "wait_for"
    /\ call' = [call EXCEPT !.pc = "finally",
                            !.outcome = [kind |-> "raised", error |-> "CancelledError"]]
    /\ UNCHANGED <<remove_after, engine, sandbox, host_runs, clients, containers,
                   created, execvars, apivars, plvars, pmvars>>

\* _cleanup_container letting a failed removal out as an error of its own.
_cleanup_container_raising(outcome, removed) ==
    IF removed THEN outcome ELSE [kind |-> "raised", error |-> "CleanupError"]

\* What run_command goes on with after _cleanup_container: a failed removal
\* is caught and logged there, and the outcome is the one it had.
_cleanup_container(outcome, removed) ==
    IF removed THEN outcome ELSE outcome

\* finally: if self.config.remove_after: await self._cleanup_container(id).
\* "docker rm -f" removes the container if there is one; a failure of the
\* removal is logged and swallowed.
CleanupContainer ==
    /\ call.pc = "finally"
    /\ remove_after
    /\ \E removed \in BOOLEAN :
         /\ removed => engine
         /\ containers' = IF removed THEN containers \ {call.id} ELSE containers
         /\ call' = [call EXCEPT !.pc = "unwound",
                                 !.cleanup = IF removed THEN "done" ELSE "failed",
                                 !.outcome = _cleanup_container(call.outcome, removed)]
    /\ UNCHANGED <<remove_after, engine, sandbox, host_runs, clients, created,
                   execvars, apivars, plvars, pmvars>>

\* finally with remove_after unset: nothing is removed.
CleanupSkipped ==
    /\ call.pc = "finally"
    /\ ~remove_after
    /\ call' = [call EXCEPT !.pc = "unwound", !.cleanup = "skipped"]
    /\ UNCHANGED <<remove_after, engine, sandbox, host_runs, clients, containers,
                   created, execvars, apivars, plvars, pmvars>>

\* The return value or the exception reaches the caller of run_command.
Deliver ==
    /\ call.pc = "unwound"
    /\ call' = [call EXCEPT !.pc = "delivered"]
    /\ UNCHANGED <<remove_after, engine, sandbox, host_runs, clients, containers,
                   created, execvars, apivars, plvars, pmvars>>

SandboxNext ==
    \/ Construct
    \/ EngineChanges
    \/ RunCommandBegin
    \/ ExecuteDockerFails
    \/ ContainerStarts
    \/ DockerRunExits
    \/ SandboxDeadline
    \/ InvocationCancelled
    \/ CleanupContainer
    \/ CleanupSkipped
    \/ Deliver

----------------------------------------------------------------------------
(* Tools *)

PseudoActions == {"confirm_action", "ask_human", "wait"}

\* The registry of the modelled Executor (the tools argument of __init__): a
\* built-in file tool, the command tool, and tools registered under the
\* reserved names ask_human (AskHumanTool) and wait.
Registry == {"file_delete", "run_command", "ask_human", "wait"}

UnknownAction == "unknown"

Actions == PseudoActions \cup Registry \cup {UnknownAction}

\* FileDeleteTool.execute: the result it returns and the filesystem it leaves.
FileDeleteResult(files, path) ==
    IF path \notin files
    THEN [status |-> "failed", payload |-> "File not found"]
    ELSE [status |-> "success", payload |-> "Deleted"]

FileDeleteEffect(files, path) == files \ {path}

\* RunCommandTool.execute: the result built from the sandbox's return code.
RunCommandResult(returncode) ==
    [status |-> IF returncode = 0 THEN "success" ELSE "failed",
     payload |-> "returncode"]

ReturnCodes == {0, 1}

\* What RunCommandTool.execute raises: an invalid command, a sandbox failure.
RaisedKinds == {"ValueError", "RuntimeError"}

----------------------------------------------------------------------------
(* Plans *)

NewStep(n, a, p) ==
    [step |-> n, action |-> a, path |-> p, status |-> "pending",
     error |-> NoError, result |-> NoResult]

\* The steps a plan may hold: any step number, any action; file_delete names
\* a file, the other actions take no path.
StepInputs ==
    { NewStep(n, a, p) : n \in 1..MaxSteps, a \in Actions \ {"file_delete"}, p \in {NoPath} }
    \cup { NewStep(n, "file_delete", p) : n \in 1..MaxSteps, p \in Files }

PlanInputs == UNION { [1..len -> StepInputs] : len \in 0..MaxSteps }

----------------------------------------------------------------------------
(* Planner: opencowork/agent/planner.py *)

NoPlan == [returned |-> FALSE]

NotValidated == [called |-> FALSE]

\* No Planner at work: the state of the other components' specifications.
PlannerOff ==
    /\ llm_service = FALSE
    /\ planner_tools = {}
    /\ plan_data = [outcome |-> "raises", steps |-> <<>>]
    /\ planned = NoPlan
    /\ validated = NotValidated

\* One entry of the "steps" list of the planning service's response: the keys
\* it has, and the values of "step" and "action" where present.
StepData ==
    { [keys |-> k, step |-> n, action |-> a] :
        k \in SUBSET {"step", "action"}, n \in 0..MaxSteps, a \in {"", "wait", "bogus"} }

WellFormedStepData ==
    { d \in StepData : /\ ("step" \in d.keys) = (d.step # 0)
                       /\ ("action" \in d.keys) = (d.action # "") }

\* generate_plan raises (the service or the parsing of its answer fails), or
\* returns a response with a list of steps.
PlanData ==
    { [outcome |-> "raises", steps |-> <<>>] } \cup
    { [outcome |-> "response", steps |-> l] :
        l \in UNION { [1..len -> WellFormedStepData] : len \in 0..MaxSteps } }

\* The tools argument of __init__: the default file tools, or a dict without
\* file_list.
ToolSets == { {"file_list", "file_delete"}, {"run_command"} }

\* step=step_data.get("step", len(steps) + 1), action=step_data.get("action",
\* "unknown"), status=StepStatus.PENDING, for each entry in order.
_parse_llm_plan(data) ==
    [k \in 1..Len(data.steps) |->
        NewStep(IF "step" \in data.steps[k].keys THEN data.steps[k].step ELSE k,
                IF "action" \in data.steps[k].keys THEN data.steps[k].action
                ELSE UnknownAction,
                NoPath)]

_generate_demo_plan(tool_names) ==
    LET steps == IF "file_list" \in tool_names
                 THEN <<NewStep(1, "file_list", <<".">>)>>
                 ELSE <<>>
    IN  Append(steps, NewStep(Len(steps) + 1, "confirm_action", NoPath))

\* Planner.plan: the parsed response if a service is in use and answers, the
\* demo plan otherwise.
plan_of(service, tool_names, data) ==
    IF service /\ data.outcome = "response"
    THEN _parse_llm_plan(data)
    ELSE _generate_demo_plan(tool_names)

\* _validate_plan refusing a plan with an action it does not know.
_validate_plan_known_actions(steps, tool_names) ==
    /\ steps # <<>>
    /\ \A k \in 1..Len(steps) :
          /\ steps[k].step = k
          /\ steps[k].action \in tool_names \cup PseudoActions

\* The loop of _validate_plan from position k on: False at the first step
\* whose number is not its position; an unknown action is only logged.
RECURSIVE validate_from(_, _, _)
validate_from(steps, tool_names, k) ==
    IF k > Len(steps) THEN TRUE
    ELSE IF steps[k].step # k THEN FALSE
    ELSE validate_from(steps, tool_names, k + 1)

_validate_plan(steps, tool_names) ==
    IF steps = <<>> THEN FALSE ELSE validate_from(steps, tool_names, 1)

PlannerInit ==
    /\ llm_service \in BOOLEAN
    /\ planner_tools \in ToolSets
    /\ plan_data \in PlanData
    /\ llm_service = FALSE => plan_data.outcome = "raises"
    /\ planned = NoPlan
    /\ validated = NotValidated

PlannerPlan ==
    /\ planned = NoPlan
    /\ planned' = [returned |-> TRUE, steps |-> plan_of(llm_service, planner_tools, plan_data)]
    /\ UNCHANGED <<llm_service, planner_tools, plan_data, validated,
                   execvars, apivars, pmvars, sbvars>>

ValidatePlan ==
    /\ planned # NoPlan
    /\ validated = NotValidated
    /\ validated' = [called |-> TRUE, result |-> _validate_plan(planned.steps, planner_tools)]
    /\ UNCHANGED <<llm_service, planner_tools, plan_data, planned,
                   execvars, apivars, pmvars, sbvars>>

PlannerNext ==
    \/ PlannerPlan
    \/ ValidatePlan

----------------------------------------------------------------------------
(* Executor: opencowork/agent/executor.py *)

NoExecResult == [status |-> "none", error |-> NoError]

\* TaskSessionManager.__init__ without storage and OpenCoworkAPI.__init__: no
\* session, no running task, nothing answered yet.
ApiStoreInit ==
    /\ _sessions = <<>>
    /\ _running_tasks = {}
    /\ responses = <<>>

\* No cancellation has been requested, the run is within its time and the
\* API has not been called.
ApiOff == cancel_requested = FALSE /\ over_max_time = FALSE /\ ApiStoreInit

\* context = ExecutionContext(goal=plan.goal, plan=plan): nothing observed yet.
NoObservations == [n \in {} |-> NoResult]

Init ==
    /\ plan \in PlanInputs
    /\ observations = NoObservations
    /\ errors = <<>>
    /\ pc = "loop"
    /\ i = 1
    /\ execResult = NoExecResult
    /\ fs = Files
    /\ inflight = {}
    /\ dispatchLog = <<>>
    /\ invoked = {}
    /\ cancelled = {}
    /\ PermissionManagerOfRun
    /\ SandboxOff
    /\ ApiOff /\ PlannerOff

\* No run of execute: the state of the other components' specifications.
ExecutorOff ==
    /\ plan = <<>>
    /\ observations = NoObservations
    /\ errors = <<>>
    /\ pc = "off"
    /\ i = 1
    /\ execResult = NoExecResult
    /\ fs = Files
    /\ inflight = {}
    /\ dispatchLog = <<>>
    /\ invoked = {}
    /\ cancelled = {}

\* The run touches neither the task's record, nor the PermissionManager, nor
\* the sandbox's state.
OnlyExecutor == UNCHANGED <<apivars, plvars, pmvars, sbvars>>

\* The observation left out.
RecordObservationDropped(obs, n, r) == obs

\* context.observations[step.step] = result
RecordObservation(obs, n, r) ==
    [m \in DOMAIN obs \cup {n} |-> IF m = n THEN r ELSE obs[m]]

\* SucceedStep writing the position into the step's number as well.
SucceedStepRenumber(p, pos, r) ==
    [p EXCEPT ![pos].status = "success", ![pos].result = r, ![pos].step = pos]

\* step.status = SUCCESS; step.result = result
SucceedStep(p, pos, r) ==
    [p EXCEPT ![pos].status = "success", ![pos].result = r]

\* FailStep as a rollback would write it: the steps before pos are reset.
FailStepReset(p, pos, err) ==
    [n \in 1..Len(p) |->
        IF n = pos THEN [p[n] EXCEPT !.status = "failed", !.error = err]
        ELSE IF n < pos THEN [p[n] EXCEPT !.status = "pending", !.result = NoResult]
        ELSE p[n]]

\* FailStep marking the step as running, as a crash between dispatch and
\* bookkeeping would leave it.
FailStepLeftRunning(p, pos, err) ==
    [p EXCEPT ![pos].status = "running", ![pos].error = err]

\* step.status = FAILED; step.error = ...
FailStep(p, pos, err) ==
    [p EXCEPT ![pos].status = "failed", ![pos].error = err]

\* The record execute itself appends in its except clauses.
short_record(step, err) == [step |-> step.step, error |-> err]

\* The record handle_error appends.
error_record(step, err, error_type) ==
    [step |-> step.step, action |-> step.action, error |-> err,
     error_type |-> error_type]

\* handle_error with its last line as its comment words it: "attempt to continue".
handle_error_continue(error_type) ==
    IF error_type \in {"ValueError", "KeyError"} THEN TRUE ELSE TRUE

\* handle_error stopping for the kinds it tests for only.
handle_error_stop_fatal_only(error_type) ==
    IF error_type \in {"ValueError", "KeyError"} THEN FALSE ELSE TRUE

\* handle_error's answer: TRUE to continue with the next step, FALSE to stop.
handle_error(error_type) ==
    IF error_type \in {"ValueError", "KeyError"} THEN FALSE ELSE FALSE

\* FinalStatus with any() in place of all().
FinalStatusAny(p) ==
    IF \E n \in 1..Len(p) : p[n].status \in {"success", "skipped"}
    THEN "success"
    ELSE "failed"

\* all(s.status in [SUCCESS, SKIPPED] for s in plan.steps)
FinalStatus(p) ==
    IF \A n \in 1..Len(p) : p[n].status \in {"success", "skipped"}
    THEN "success"
    ELSE "failed"

\* The outer except clause re-raising instead of returning.
OuterExceptReraise(err) == [pc |-> "propagated", status |-> "none", error |-> err]

\* The outer except clause: a failed ExecutionResult is returned.
OuterExcept(err) == [pc |-> "returned", status |-> "failed", error |-> err]

AtStep == pc = "loop" /\ i <= Len(plan)

Awaiting(action) == pc = "await" /\ inflight = {i} /\ plan[i].action = action

\* StepSucceeds with the loop staying at the step it has just run.
StepSucceedsRetry(r) ==
    /\ observations' = RecordObservation(observations, plan[i].step, r)
    /\ plan' = SucceedStep(plan, i, r)
    /\ i' = i
    /\ pc' = "loop"
    /\ inflight' = {}
    /\ UNCHANGED <<errors, execResult>>

\* execute_step returned r: lines 86-88, then the loop goes on.
StepSucceeds(r) ==
    /\ observations' = RecordObservation(observations, plan[i].step, r)
    /\ plan' = SucceedStep(plan, i, r)
    /\ i' = i + 1
    /\ pc' = "loop"
    /\ inflight' = {}
    /\ UNCHANGED <<errors, execResult>>

\* execute_step raised: one of the two except clauses of the loop body. The
\* step is marked failed, a record is appended, handle_error appends its own
\* record and decides; a failure inside handle_error leaves the except clause
\* and is caught by the outer handler.
StepFails(step_error, short_error, policy_error, error_type) ==
    /\ plan' = FailStep(plan, i, step_error)
    /\ inflight' = {}
    /\ UNCHANGED observations
    /\ \E policy_raises \in BOOLEAN :
         IF policy_raises
         THEN LET out == OuterExcept("handle_error failed")
              IN  /\ errors' = Append(errors, short_record(plan[i], short_error))
                  /\ pc' = out.pc
                  /\ execResult' = [status |-> out.status, error |-> out.error]
                  /\ i' = i
         ELSE /\ errors' = errors \o
                    << short_record(plan[i], short_error),
                       error_record(plan[i], policy_error, error_type) >>
              /\ pc' = IF handle_error(error_type) THEN "loop" ELSE "break"
              /\ i' = IF handle_error(error_type) THEN i + 1 ELSE i
              /\ UNCHANGED execResult

\* The timeout clause without its call of handle_error: the loop goes on.
StepTimesOutSkipsPolicy ==
    /\ plan' = FailStep(plan, i, "Step execution timed out")
    /\ inflight' = {}
    /\ errors' = Append(errors, short_record(plan[i], "timeout"))
    /\ pc' = "loop"
    /\ i' = i + 1
    /\ UNCHANGED <<observations, execResult>>

\* except asyncio.TimeoutError
StepTimesOut ==
    StepFails("Step execution timed out", "timeout", "Step timed out", "TimeoutError")

\* except Exception as e
StepRaises(msg, error_type) == StepFails(msg, msg, msg, error_type)

Dispatched == dispatchLog' = Append(dispatchLog, i)

\* if step.action == "confirm_action": return {"status": "success", "confirmed": True}
StepConfirmAction ==
    /\ AtStep
    /\ plan[i].action = "confirm_action"
    /\ Dispatched
    /\ StepSucceeds([status |-> "success", payload |-> "confirmed"])
    /\ UNCHANGED <<fs, invoked, cancelled>>
    /\ OnlyExecutor

\* execute_step with the registry consulted first: an ask_human step reaches
\* the tool registered under that name.
StepAskHumanViaRegistry ==
    /\ AtStep
    /\ plan[i].action = "ask_human"
    /\ Dispatched
    /\ invoked' = IF "ask_human" \in Registry THEN invoked \cup {i} ELSE invoked
    /\ StepSucceeds([status |-> "success", payload |-> "response"])
    /\ UNCHANGED <<fs, cancelled>>
    /\ OnlyExecutor

\* if step.action == "ask_human": return {"status": "success", "response": "confirmed"}
StepAskHuman ==
    /\ AtStep
    /\ plan[i].action = "ask_human"
    /\ Dispatched
    /\ StepSucceeds([status |-> "success", payload |-> "response"])
    /\ UNCHANGED <<fs, invoked, cancelled>>
    /\ OnlyExecutor

\* if step.action == "wait": await asyncio.sleep(duration)
StepWaitBegin ==
    /\ AtStep
    /\ plan[i].action = "wait"
    /\ Dispatched
    /\ pc' = "await"
    /\ inflight' = {i}
    /\ UNCHANGED <<plan, observations, errors, i, execResult, fs, invoked, cancelled>>
    /\ OnlyExecutor

\* ... return {"status": "success", "waited_seconds": duration}
StepWaitDone ==
    /\ Awaiting("wait")
    /\ StepSucceeds([status |-> "success", payload |-> "waited_seconds"])
    /\ UNCHANGED <<fs, dispatchLog, invoked, cancelled>>
    /\ OnlyExecutor

\* The registry lookup without its membership test: the step yields nothing
\* and is taken for a success.
StepUnknownToolSkipped ==
    /\ AtStep
    /\ plan[i].action \notin PseudoActions
    /\ plan[i].action \notin Registry
    /\ Dispatched
    /\ StepSucceeds(NoResult)
    /\ UNCHANGED <<fs, invoked, cancelled>>
    /\ OnlyExecutor

\* if step.action not in self.tools: raise ValueError(f"Unknown tool: ...")
StepUnknownTool ==
    /\ AtStep
    /\ plan[i].action \notin PseudoActions
    /\ plan[i].action \notin Registry
    /\ Dispatched
    /\ StepRaises("Unknown tool", "ValueError")
    /\ UNCHANGED <<fs, invoked, cancelled>>
    /\ OnlyExecutor

\* tool.execute(path=...) of FileDeleteTool: it never suspends, so the
\* invocation runs to its return inside wait_for.
StepFileDelete ==
    /\ AtStep
    /\ plan[i].action = "file_delete"
    /\ Dispatched
    /\ invoked' = invoked \cup {i}
    /\ fs' = FileDeleteEffect(fs, plan[i].path)
    /\ StepSucceeds(FileDeleteResult(fs, plan[i].path))
    /\ UNCHANGED cancelled
    /\ OnlyExecutor

\* await asyncio.wait_for(tool.execute(**step.arguments), timeout=...) of
\* RunCommandTool: the invocation is suspended in the sandbox.
RunCommandDispatch ==
    /\ AtStep
    /\ plan[i].action = "run_command"
    /\ Dispatched
    /\ invoked' = invoked \cup {i}
    /\ pc' = "await"
    /\ inflight' = {i}
    /\ UNCHANGED <<plan, observations, errors, i, execResult, fs, cancelled>>
    /\ OnlyExecutor

\* The sandbox returned (returncode, stdout, stderr).
RunCommandReturn ==
    /\ Awaiting("run_command")
    /\ \E returncode \in ReturnCodes : StepSucceeds(RunCommandResult(returncode))
    /\ UNCHANGED <<fs, dispatchLog, invoked, cancelled>>
    /\ OnlyExecutor

\* RunCommandTool.execute raised ValueError or RuntimeError.
RunCommandRaise ==
    /\ Awaiting("run_command")
    /\ \E kind \in RaisedKinds : StepRaises("command failed", kind)
    /\ UNCHANGED <<fs, dispatchLog, invoked, cancelled>>
    /\ OnlyExecutor

\* RunCommandTool.execute re-raised the sandbox's TimeoutError. Whether the
\* built-in TimeoutError is asyncio.TimeoutError depends on the interpreter,
\* so either except clause may take it.
RunCommandSandboxTimeout ==
    /\ Awaiting("run_command")
    /\ \/ StepTimesOut
       \/ StepRaises("Command exceeded timeout", "TimeoutError")
    /\ UNCHANGED <<fs, dispatchLog, invoked, cancelled>>
    /\ OnlyExecutor

\* The per-step deadline fired: wait_for cancels the invocation and raises
\* asyncio.TimeoutError.
StepDeadline ==
    /\ Awaiting("run_command")
    /\ cancelled' = cancelled \cup {i}
    /\ StepTimesOut
    /\ UNCHANGED <<fs, dispatchLog, invoked>>
    /\ OnlyExecutor

\* After the loop (exhausted or left by break): final status and return.
Finish ==
    /\ \/ pc = "break"
       \/ pc = "loop" /\ i > Len(plan)
    /\ execResult' = [status |-> FinalStatus(plan), error |-> NoError]
    /\ pc' = "returned"
    /\ UNCHANGED <<plan, observations, errors, i, fs, inflight, dispatchLog,
                   invoked, cancelled>>
    /\ OnlyExecutor

Next ==
    \/ StepConfirmAction
    \/ StepAskHuman
    \/ StepWaitBegin
    \/ StepWaitDone
    \/ StepUnknownTool
    \/ StepFileDelete
    \/ RunCommandDispatch
    \/ RunCommandReturn
    \/ RunCommandRaise
    \/ RunCommandSandboxTimeout
    \/ StepDeadline
    \/ Finish

Spec == Init /\ [][Next]_vars

\* The event loop resumes execute whenever it can go on: a step that was
\* dispatched returns, raises or is cut off by its deadline, and the loop then
\* takes its next step.
SpecLive == Init /\ [][Next]_vars /\ WF_vars(Next)

----------------------------------------------------------------------------
(* The run of a task: a plan numbered by position, with waits of either
   length, a cancellation request that may arrive at any time, and a clock
   that may pass max_execution_time *)

\* arguments = {"seconds": d} of a wait step with d above timeout_per_tool;
\* a wait step without it sleeps for the default of one second.
LongWait == <<"seconds", "above timeout_per_tool">>

TaskStepInputs(n) ==
    { NewStep(n, a, NoPath) : a \in Actions \ {"file_delete"} }
    \cup { NewStep(n, "file_delete", p) : p \in Files }
    \cup { NewStep(n, "wait", LongWait) }

TaskPlanInputs ==
    UNION { { p \in [1..len -> UNION {TaskStepInputs(n) : n \in 1..len}] :
                \A n \in 1..len : p[n].step = n }
            : len \in 0..MaxSteps }

TaskInit ==
    /\ plan \in TaskPlanInputs
    /\ observations = NoObservations
    /\ errors = <<>>
    /\ pc = "loop"
    /\ i = 1
    /\ execResult = NoExecResult
    /\ fs = Files
    /\ inflight = {}
    /\ dispatchLog = <<>>
    /\ invoked = {}
    /\ cancelled = {}
    /\ PermissionManagerOfRun
    /\ SandboxOff
    /\ ApiOff /\ PlannerOff

\* cancel_execution(task_id) while the run has not returned: the request is
\* recorded on the task; nothing of the run is touched.
CancelExecution ==
    /\ pc # "returned"
    /\ ~cancel_requested
    /\ cancel_requested' = TRUE
    /\ UNCHANGED <<over_max_time, apistore, execvars, plvars, pmvars, sbvars>>

\* The clock passes start_time + self.max_execution_time while execute has
\* not returned. execute reads the clock again only for duration_ms.
MaxExecutionTimePasses ==
    /\ pc # "returned"
    /\ ~over_max_time
    /\ over_max_time' = TRUE
    /\ UNCHANGED <<cancel_requested, apistore, execvars, plvars, pmvars, sbvars>>

TaskNext ==
    \/ StepConfirmAction
    \/ StepAskHuman
    \/ StepWaitBegin
    \/ StepWaitDone
    \/ StepUnknownTool
    \/ StepFileDelete
    \/ RunCommandDispatch
    \/ RunCommandReturn
    \/ RunCommandRaise
    \/ RunCommandSandboxTimeout
    \/ StepDeadline
    \/ Finish
    \/ CancelExecution
    \/ MaxExecutionTimePasses

SpecTask == TaskInit /\ [][TaskNext]_vars

----------------------------------------------------------------------------
(* The task API: opencowork/api/session.py, opencowork/api/server_impl.py *)

\* Most task ids handed out, and most calls the API answers.
MaxTasks == 2

MaxCalls == 3

TaskIds == 1..MaxTasks

\* The member names of the enum ExecutionStatus.
ExecutionStatusNames ==
    {"PENDING", "RUNNING", "SUCCESS", "FAILED", "TIMEOUT", "CANCELLED", "PERMISSION_DENIED"}

\* TaskSession.__init__: self.plan = None, self.status =
\* ExecutionStatus.NOT_STARTED. The attribute lookup on the enum raises
\* AttributeError for a name that is not a member.
TaskSession(task_id) ==
    IF "NOT_STARTED" \in ExecutionStatusNames
    THEN [raised |-> FALSE,
          session |-> [task_id |-> task_id, plan |-> FALSE,
                       status |-> "not_started", error |-> NoError]]
    ELSE [raised |-> TRUE, error |-> "AttributeError"]

\* self._sessions[task_id] = session
StoreSession(sessions, task_id, session) ==
    [t \in DOMAIN sessions \cup {task_id} |->
        IF t = task_id THEN session ELSE sessions[t]]

\* del self._sessions[task_id]
delete_session(sessions, task_id) ==
    [t \in DOMAIN sessions \ {task_id} |-> sessions[t]]

Response(handler, task_id, code, detail) ==
    [call |-> handler, task_id |-> task_id, code |-> code, detail |-> detail]

\* No task id in a response.
NoTask == 0

\* create_plan: create_session runs before the try block, so what
\* TaskSession.__init__ raises leaves the handler; with the session stored,
\* the plan is stored in it, or (planning or the building of the response
\* raised) the session is marked failed and the call answers 400.
ApiCreatePlan ==
    /\ Len(responses) < MaxCalls
    /\ \E task_id \in TaskIds \ DOMAIN _sessions :
         LET made == TaskSession(task_id)
         IN  IF made.raised
             THEN /\ responses' = Append(responses,
                                         Response("create_plan", NoTask, 500, made.error))
                  /\ UNCHANGED <<_sessions, _running_tasks>>
             ELSE \E planning_raises \in BOOLEAN :
                    /\ _sessions' =
                         StoreSession(_sessions, task_id,
                            IF planning_raises
                            THEN [made.session EXCEPT !.status = "failed",
                                                      !.error = "planning failed"]
                            ELSE [made.session EXCEPT !.plan = TRUE])
                    /\ responses' =
                         Append(responses,
                            IF planning_raises
                            THEN Response("create_plan", NoTask, 400, "planning failed")
                            ELSE Response("create_plan", task_id, 200, "plan"))
                    /\ UNCHANGED _running_tasks
    /\ UNCHANGED <<cancel_requested, over_max_time, execvars, plvars, pmvars, sbvars>>

\* execute_task(task_id)
ApiExecuteTask ==
    /\ Len(responses) < MaxCalls
    /\ \E task_id \in TaskIds :
         IF task_id \notin DOMAIN _sessions
         THEN /\ responses' = Append(responses,
                                     Response("execute_task", task_id, 404, "Task not found"))
              /\ UNCHANGED <<_sessions, _running_tasks>>
         ELSE IF ~_sessions[task_id].plan
         THEN /\ responses' = Append(responses,
                                     Response("execute_task", task_id, 400, "No plan to execute"))
              /\ UNCHANGED <<_sessions, _running_tasks>>
         ELSE IF _sessions[task_id].status # "pending"
         THEN /\ responses' = Append(responses,
                                     Response("execute_task", task_id, 400, "Task already started"))
              /\ UNCHANGED <<_sessions, _running_tasks>>
         ELSE /\ _running_tasks' = _running_tasks \cup {task_id}
              /\ _sessions' = [_sessions EXCEPT ![task_id].status = "running"]
              /\ responses' = Append(responses,
                                     Response("execute_task", task_id, 200, "running"))
    /\ UNCHANGED <<cancel_requested, over_max_time, execvars, plvars, pmvars, sbvars>>

\* cancel_execution(task_id)
ApiCancelExecution ==
    /\ Len(responses) < MaxCalls
    /\ \E task_id \in TaskIds :
         IF task_id \notin DOMAIN _sessions
         THEN /\ responses' = Append(responses,
                                     Response("cancel_execution", task_id, 404, "Task not found"))
              /\ UNCHANGED <<_sessions, _running_tasks>>
         ELSE IF _sessions[task_id].status # "running"
         THEN /\ responses' = Append(responses,
                                     Response("cancel_execution", task_id, 400, "Task is not running"))
              /\ UNCHANGED <<_sessions, _running_tasks>>
         ELSE /\ _running_tasks' = _running_tasks \ {task_id}
              /\ _sessions' = [_sessions EXCEPT ![task_id].status = "cancelled"]
              /\ responses' = Append(responses,
                                     Response("cancel_execution", task_id, 200, "cancelled"))
    /\ UNCHANGED <<cancel_requested, over_max_time, execvars, plvars, pmvars, sbvars>>

\* delete_task(task_id)
ApiDeleteTask ==
    /\ Len(responses) < MaxCalls
    /\ \E task_id \in TaskIds :
         IF task_id \notin DOMAIN _sessions
         THEN /\ responses' = Append(responses,
                                     Response("delete_task", task_id, 404, "Task not found"))
              /\ UNCHANGED <<_sessions, _running_tasks>>
         ELSE /\ _sessions' = delete_session(_sessions, task_id)
              /\ _running_tasks' = _running_tasks \ {task_id}
              /\ responses' = Append(responses,
                                     Response("delete_task", task_id, 200, "deleted"))
    /\ UNCHANGED <<cancel_requested, over_max_time, execvars, plvars, pmvars, sbvars>>

ApiNext ==
    \/ ApiCreatePlan
    \/ ApiExecuteTask
    \/ ApiCancelExecution
    \/ ApiDeleteTask

ApiInit ==
    /\ ApiOff
    /\ ExecutorOff
    /\ PlannerOff
    /\ PermissionManagerOfRun
    /\ SandboxOff

SpecApi == ApiInit /\ [][ApiNext]_vars

----------------------------------------------------------------------------
(* The Policy Engine and the Sandbox Runtime on their own *)

PolicyInit == PermissionManagerInit /\ ExecutorOff /\ SandboxOff /\ ApiOff /\ PlannerOff

SpecPolicy == PolicyInit /\ [][PolicyNext]_vars

SpecPlannerInit ==
    PlannerInit /\ ExecutorOff /\ PermissionManagerOfRun /\ SandboxOff /\ ApiOff

SpecPlanner == SpecPlannerInit /\ [][PlannerNext]_vars

AuditInit == PermissionManagerOfRun /\ ExecutorOff /\ SandboxOff /\ ApiOff /\ PlannerOff

SpecAudit == AuditInit /\ [][AuditNext]_vars

SandboxInit == DockerSandboxInit /\ ExecutorOff /\ PermissionManagerOfRun /\ ApiOff /\ PlannerOff

SpecSandbox == SandboxInit /\ [][SandboxNext]_vars

----------------------------------------------------------------------------
(* Properties of Executor.execute *)

Terminal == {"success", "failed", "skipped"}

Positions == 1..Len(plan)

\* The positions of the steps the loop has started.
Started == {dispatchLog[n] : n \in 1..Len(dispatchLog)}

Returned == pc = "returned"

\* context.errors holds a record execute appended for the step at pos.
HasShortRecord(pos, err) ==
    \E n \in 1..Len(errors) :
        /\ errors[n].step = plan[pos].step
        /\ errors[n].error = err

\* context.errors holds a record handle_error appended for the step at pos.
HasPolicyRecord(pos, kinds) ==
    \E n \in 1..Len(errors) :
        /\ "error_type" \in DOMAIN errors[n]
        /\ errors[n].step = plan[pos].step
        /\ errors[n].action = plan[pos].action
        /\ errors[n].error_type \in kinds

\* The kinds handle_error inspects: isinstance(error, (ValueError, KeyError)).
FatalKinds == {"ValueError", "KeyError"}

\* C1: the steps are started in strictly ascending step-number order, no step
\* is started before the one started before it is terminal, and at most one
\* step is in flight.
C1_AscendingSequential ==
    /\ Cardinality(inflight) <= 1
    /\ \A a, b \in 1..Len(dispatchLog) :
         a < b => plan[dispatchLog[a]].step < plan[dispatchLog[b]].step
    /\ \A a \in 1..Len(dispatchLog) :
         a < Len(dispatchLog) => plan[dispatchLog[a]].status \in Terminal

\* C2: when execute has returned and every step's invocation succeeded, the
\* status is success and the observation map holds as many observations as the
\* plan has steps.
C2_AllSucceedNObservations ==
    (Returned /\ \A n \in Positions :
                    plan[n].status = "success" /\ plan[n].result.status = "success")
    => /\ execResult.status = "success"
       /\ Cardinality(DOMAIN observations) = Len(plan)

\* C3: once a step has failed with a kind the continuation policy marks fatal,
\* every later step is pending, and the returned status is failed.
C3_FatalStopsRun ==
    \A k \in Positions :
        (plan[k].status = "failed" /\ HasPolicyRecord(k, FatalKinds))
        => /\ \A j \in Positions : j > k => plan[j].status = "pending"
           /\ Returned => execResult.status = "failed"

C3_Witness ==
    /\ Returned
    /\ Len(plan) >= 2
    /\ plan[1].status = "failed"
    /\ HasPolicyRecord(1, FatalKinds)
    /\ plan[2].status = "pending"

\* C4: the returned status is success exactly when every step ended success
\* or skipped, and failed otherwise.
C4_StatusIffAllSucceeded ==
    Returned =>
        /\ execResult.status \in {"success", "failed"}
        /\ execResult.status = "success"
             <=> \A n \in Positions : plan[n].status \in {"success", "skipped"}

C4_Witness ==
    /\ Returned
    /\ execResult.status = "failed"
    /\ \E n \in Positions : plan[n].status = "success"

\* C5: a step whose tool's operation failed is recorded failed, with an error
\* record in the context, and never as success.
C5_FailedToolNeverSuccess ==
    \A n \in Positions :
        plan[n].result.status = "failed"
        => /\ plan[n].status = "failed"
           /\ \E m \in 1..Len(errors) : errors[m].step = plan[n].step

\* C6: a file_delete step on a path the policy does not allow to delete never
\* reaches the tool: the tool is not invoked, the file is still there, and the
\* step is failed with kind permission-denied.
C6_PolicyDenialBeforeTool ==
    \A n \in Started :
        (plan[n].action = "file_delete" /\ ~can_delete_file(policy.folders, plan[n].path))
        => /\ n \notin invoked
           /\ plan[n].path \in fs
           /\ plan[n].status = "failed"
           /\ HasPolicyRecord(n, {"PermissionError"})

\* C7: no failure leaves execute: the run is in its loop, suspended in an
\* invocation, or has returned; a result exists exactly when it has returned,
\* and its status is success or failed.
C7_FailureBoundary ==
    /\ pc \in {"loop", "await", "break", "returned"}
    /\ Returned <=> execResult # NoExecResult
    /\ Returned => execResult.status \in {"success", "failed"}
    /\ pc = "await" => inflight = {i} /\ i \in Positions

\* A run that returned through the outer handler, after handle_error failed.
C7_Witness ==
    /\ Returned
    /\ execResult.error = "handle_error failed"
    /\ execResult.status = "failed"

C9_TimeoutIsStepFailure ==
    \A k \in cancelled :
        /\ cancelled = {k}
        /\ inflight = {}
        /\ plan[k].status = "failed"
        /\ plan[k].error = "Step execution timed out"
        /\ HasShortRecord(k, "timeout")
        /\ \/ HasPolicyRecord(k, {"TimeoutError"})
           \/ Returned /\ execResult.error = "handle_error failed"
        /\ pc \in {"break", "returned"}
        /\ Returned => execResult.status = "failed"

C9_Witness ==
    /\ Returned
    /\ cancelled # {}
    /\ execResult.error = NoError
    /\ \E k \in cancelled : k > 1 /\ plan[1].status = "success"

\* C10: a started step whose action is neither a pseudo-action nor in the
\* registry is failed, no tool was invoked for it, and an error record for the
\* unknown tool is in the context.
C10_UnknownToolFails ==
    \A k \in Started :
        (plan[k].action \notin PseudoActions /\ plan[k].action \notin Registry)
        => /\ plan[k].status = "failed"
           /\ k \notin invoked
           /\ HasShortRecord(k, "Unknown tool")

C10_Witness ==
    /\ Returned
    /\ \E k \in Started :
         /\ plan[k].action = UnknownAction
         /\ plan[k].status = "failed"
         /\ HasPolicyRecord(k, {"ValueError"})

\* C11: the reserved pseudo-actions never go through the registry: a started
\* confirm_action step has ended success with the confirmed result, no tool
\* was invoked for a confirm_action, ask_human or wait step although tools are
\* registered under ask_human and wait, and the step that completes a
\* confirm_action records the confirmed result under its step number.
C11_PseudoActionsBypassRegistry ==
    /\ [](\A k \in Started :
            /\ plan[k].action \in PseudoActions => k \notin invoked
            /\ plan[k].action = "confirm_action"
                 => /\ plan[k].status = "success"
                    /\ plan[k].result = [status |-> "success", payload |-> "confirmed"])
    /\ [][ (AtStep /\ plan[i].action = "confirm_action")
           => /\ plan[i].step \in DOMAIN observations'
              /\ observations'[plan[i].step] = [status |-> "success", payload |-> "confirmed"]
         ]_vars

C11_Witness ==
    /\ Returned
    /\ {"ask_human", "wait"} \subseteq Registry
    /\ \E a, w, c \in Positions :
         /\ plan[a].action = "ask_human" /\ plan[a].status = "success"
         /\ plan[w].action = "wait" /\ plan[w].status = "success"
         /\ plan[c].action = "confirm_action" /\ plan[c].status = "success"
         /\ invoked = {}

\* C12: no step of execute changes the number of steps of the plan or the
\* step number at any position, so the plan of the returned result has the
\* input plan's steps, under their numbers, in their order.
C12_StepsPreserved ==
    [][ /\ Len(plan') = Len(plan)
        /\ \A n \in Positions : plan'[n].step = plan[n].step
        /\ \A n \in Positions : plan'[n].action = plan[n].action
      ]_vars

\* A returned plan whose steps are numbered against their positions.
C12_Witness ==
    /\ Returned
    /\ Len(plan) = MaxSteps
    /\ plan[1].step = 2
    /\ plan[2].step = 1
    /\ plan[1].status = "success"
    /\ plan[2].status = "failed"

\* The positions of the failed steps.
Failed == {n \in Positions : plan[n].status = "failed"}

\* C22: a step leaves pending only for running, reaches a terminal status
\* only from running, and is running when the loop has just started it.
C22_StepStateMachine ==
    [][ /\ \A n \in Positions :
             /\ plan[n].status = "pending" => plan'[n].status \in {"pending", "running"}
             /\ (plan[n].status \notin Terminal /\ plan'[n].status \in Terminal)
                  => plan[n].status = "running"
        /\ dispatchLog' # dispatchLog
             => plan'[dispatchLog'[Len(dispatchLog')]].status = "running"
      ]_vars

\* C23: in the plan of a returned result no step is running, whether execute
\* returned after its loop or through its outer handler.
C23_NoRunningStepReturned ==
    Returned =>
        \A n \in Positions : plan[n].status \in {"pending", "success", "failed", "skipped"}

\* A result returned through the outer handler, in the middle of a plan.
C23_Witness ==
    /\ Returned
    /\ execResult.error = "handle_error failed"
    /\ Len(plan) = MaxSteps
    /\ plan[1].status = "success"
    /\ plan[2].status = "failed"
    /\ plan[3].status = "pending"

\* C24: when execute has returned, the error list holds one record per failed
\* step, each with step number, action, error text and error kind.
C24_OneRecordPerFailure ==
    Returned =>
        /\ Len(errors) = Cardinality(Failed)
        /\ \A m \in 1..Len(errors) :
             DOMAIN errors[m] = {"step", "action", "error", "error_type"}

DistinctNumbers ==
    \A a, b \in Positions : a # b => plan[a].step # plan[b].step

\* C26: when execute has returned on a plan with distinct step numbers, the
\* observation map has an entry under a step's number exactly if the step is
\* success, the entry is the step's stored result, and there is no entry
\* under any other number.
C26_ObservationIffSuccess ==
    (Returned /\ DistinctNumbers) =>
        /\ \A n \in Positions :
             /\ plan[n].step \in DOMAIN observations <=> plan[n].status = "success"
             /\ plan[n].status = "success"
                  => observations[plan[n].step] = plan[n].result
        /\ DOMAIN observations \subseteq {plan[n].step : n \in Positions}

\* Distinct numbers that are not the positions, a success and a failure.
C26_Witness ==
    /\ Returned
    /\ DistinctNumbers
    /\ Len(plan) = 2
    /\ plan[1].step = 3
    /\ plan[1].status = "success"
    /\ plan[2].status = "failed"
    /\ DOMAIN observations = {3}

\* C27: a started wait step that asks for more than the per-tool deadline
\* and is no longer suspended is failed, with the timeout text and a timeout
\* record: the deadline cut it off.
C27_WaitCutOffAtDeadline ==
    \A k \in Started :
        (plan[k].action = "wait" /\ plan[k].path = LongWait /\ k \notin inflight)
        => /\ plan[k].status = "failed"
           /\ plan[k].error = "Step execution timed out"
           /\ HasShortRecord(k, "timeout")

\* C28: once cancellation of the task has been requested, the loop starts no
\* further step.
C28_NoStepAfterCancel ==
    [][ cancel_requested => dispatchLog' = dispatchLog ]_vars

\* C35: execute eventually returns an ExecutionResult, and no position of the
\* plan is dispatched twice.
C35_ExecuteReturns ==
    /\ <>(pc = "returned" /\ execResult # NoExecResult)
    /\ [](\A a, b \in DOMAIN dispatchLog :
             a # b => dispatchLog[a] # dispatchLog[b])

\* A run that went through a suspended step and a failure and has returned.
C35_Witness ==
    /\ pc = "returned"
    /\ Len(plan) = MaxSteps
    /\ Len(dispatchLog) = 2
    /\ cancelled # {}

\* C36: once the time elapsed since the start of execute exceeds
\* max_execution_time, no further step of the plan is dispatched.
C36_NoStepPastMaxExecutionTime ==
    [][ over_max_time => dispatchLog' = dispatchLog ]_vars

----------------------------------------------------------------------------
(* Properties of the Planner *)

\* Step numbers are 1, 2, ..., n in sequence position.
Contiguous(steps) == \A k \in 1..Len(steps) : steps[k].step = k

\* C33: _validate_plan answers true exactly for a plan with at least one step
\* whose step numbers are 1, 2, ..., n in sequence position, whatever the
\* actions of its steps are.
C33_ValidatesNumberingOnly ==
    validated.called =>
        validated.result = (planned.steps # <<>> /\ Contiguous(planned.steps))

\* A well-numbered plan with an action that is neither a tool nor a
\* pseudo-action passes.
C33_Witness ==
    /\ validated.called
    /\ validated.result
    /\ Len(planned.steps) = 2
    /\ planned.steps[2].action = "bogus"

\* C34: every Plan returned by Planner.plan has at least one step, all its
\* steps pending, and step numbers 1, 2, ..., n in sequence position, and so
\* passes _validate_plan.
C34_PlannedPlanValid ==
    planned.returned =>
        /\ planned.steps # <<>>
        /\ \A k \in 1..Len(planned.steps) : planned.steps[k].status = "pending"
        /\ Contiguous(planned.steps)
        /\ _validate_plan(planned.steps, planner_tools)

----------------------------------------------------------------------------
(* Properties of the task API *)

\* C38: a create_plan call that planning does not fail answers with a task
\* whose session holds the plan and has the status execute_task requires,
\* pending; and an execute_task accepted for a task leaves it running.
C38_NewTaskCanStart ==
    \A k \in DOMAIN responses :
        /\ (responses[k].call = "create_plan" /\ responses[k].code # 400)
              => /\ responses[k].code = 200
                 /\ k = Len(responses)
                      => /\ responses[k].task_id \in DOMAIN _sessions
                         /\ _sessions[responses[k].task_id].plan
                         /\ _sessions[responses[k].task_id].status = "pending"
        /\ (responses[k].call = "execute_task" /\ responses[k].code = 200
             /\ k = Len(responses))
              => _sessions[responses[k].task_id].status = "running"

\* C39: the running set holds only tasks whose session has status running; an
\* accepted execute_task found its task pending; a rejected one leaves the
\* sessions and the running set as they were.
C39_StartedAtMostOnce ==
    /\ [](\A t \in _running_tasks :
             t \in DOMAIN _sessions /\ _sessions[t].status = "running")
    /\ [][ (Len(responses') > Len(responses)
            /\ responses'[Len(responses')].call = "execute_task")
           => LET r == responses'[Len(responses')]
              IN  IF r.code = 200
                  THEN /\ _sessions[r.task_id].status = "pending"
                       /\ r.task_id \notin _running_tasks
                  ELSE UNCHANGED <<_sessions, _running_tasks>> ]_vars

\* No session is ever stored, so no call is ever made on a task that exists.
ApiNoSessionEver == _sessions = <<>> /\ _running_tasks = {}

----------------------------------------------------------------------------
(* Properties of the Policy Engine *)

FileCalls == {"can_read_file", "can_write_file", "can_delete_file"}

\* The positions of the rules whose resolved path is a prefix of the resolved
\* target, and those among them with the longest path.
Matching(folders, target) ==
    {n \in 1..Len(folders) : IsPrefix(resolve(folders[n].path), resolve(target))}

Longest(folders, target) ==
    {n \in Matching(folders, target) :
        \A m \in Matching(folders, target) :
            Len(resolve(folders[m].path)) <= Len(resolve(folders[n].path))}

\* What a rule allows for each of the three file questions.
Grants(name, rule) ==
    CASE name = "can_read_file" -> rule.access \in {"read", "read_write"}
      [] name = "can_write_file" -> rule.access = "read_write"
      [] name = "can_delete_file" -> rule.access = "read_write" /\ rule.allow_delete

\* The answer of the manager to a file question under the given rules.
Answer(name, folders, target) ==
    CASE name = "can_read_file" -> can_read_file(folders, target)
      [] name = "can_write_file" -> can_write_file(folders, target)
      [] name = "can_delete_file" -> can_delete_file(folders, target)

Reordered(folders, perm) == [n \in 1..Len(folders) |-> folders[perm[n]]]

\* C13 as stated: the answer to a file question on a governed path is what a
\* rule with the longest matching path grants, and it is the same under every
\* order of the rules.
C13_OrderNeverMatters ==
    decision.call \in FileCalls =>
        LET folders == policy.folders
            target == decision.resource
        IN  /\ Longest(folders, target) # {}
                 => \E n \in Longest(folders, target) :
                        decision.result = Grants(decision.call, folders[n])
            /\ \A perm \in Permutations(1..Len(folders)) :
                   Answer(decision.call, Reordered(folders, perm), target)
                       = decision.result

\* C13, amended: the answer to a file question on a governed path is what the
\* first of the rules with the longest matching path grants; whenever only one
\* rule has that longest path the answer is the same under every order of the
\* rules; with /a (read) and /a/b (read_write) in either order, /a/b/c is
\* writable.
C13_LongestPrefixDecides ==
    decision.call \in FileCalls =>
        LET folders == policy.folders
            target == decision.resource
            longest == Longest(folders, target)
        IN  /\ longest # {}
                 => LET first == CHOOSE n \in longest : \A m \in longest : n <= m
                    IN  decision.result = Grants(decision.call, folders[first])
            /\ Cardinality(longest) <= 1
                 => \A perm \in Permutations(1..Len(folders)) :
                        Answer(decision.call, Reordered(folders, perm), target)
                            = decision.result

\* The longer rule first in the dict, the shorter one after it.
C13_Witness ==
    /\ policy.folders = << FolderPolicy(<<"a", "b">>, "read_write", FALSE, FALSE),
                           FolderPolicy(<<"a">>, "read", FALSE, FALSE) >>
    /\ decision.call = "can_write_file"
    /\ decision.resource = <<"a", "b", "c">>
    /\ decision.result = TRUE

C15_DeleteNeedsBothGates ==
    decision.call = "can_delete_file" =>
        LET folders == policy.folders
            target == decision.resource
            governing == {folders[n] : n \in Longest(folders, target)}
        IN  /\ decision.result
                 => \E r \in governing : r.access = "read_write" /\ r.allow_delete
            /\ (governing # {} /\ \A r \in governing :
                                     r.access = "read_write" /\ r.allow_delete)
                 => decision.result
            /\ (governing # {} /\ \A r \in governing :
                                     r.access = "read_write" /\ ~r.allow_delete)
                 => ~decision.result /\ can_write_file(folders, target)
            /\ (governing # {} /\ \A r \in governing :
                                     r.access # "read_write" /\ r.allow_delete)
                 => ~decision.result

C15_Witness ==
    /\ policy.folders = << FolderPolicy(<<"a">>, "read", TRUE, FALSE) >>
    /\ decision.call = "can_delete_file"
    /\ decision.resource = <<"a", "x">>
    /\ decision.result = FALSE

C17_ToolsEnabledByDefault ==
    decision.call = "can_use_tool" =>
        decision.result =
            IF \E t \in DOMAIN policy.tools : t = decision.resource
            THEN policy.tools[decision.resource].enabled
            ELSE TRUE

\* A policy that disables run_command, asked about a tool it does not name.
C17_Witness ==
    /\ DOMAIN policy.tools = {"run_command"}
    /\ ~policy.tools["run_command"].enabled
    /\ decision.call = "can_use_tool"
    /\ decision.resource = "file_delete"
    /\ decision.result = TRUE

\* C31: requires_confirmation answers the require_confirmation flag of the
\* governing folder rule for write and delete on a governed path, the flag of
\* the tool's rule for tool_use on a tool that has one, and false otherwise
\* (no governing rule, no tool rule, or another action kind such as read).
C31_ConfirmationFlagOfGoverningRule ==
    decision.call = "requires_confirmation" =>
        LET folders == policy.folders
            longest == Longest(folders, decision.resource)
        IN  CASE decision.action \in {"write", "delete"} /\ longest # {} ->
                   LET first == CHOOSE n \in longest : \A m \in longest : n <= m
                   IN  decision.result = folders[first].require_confirmation
              [] decision.action = "tool_use"
                 /\ (\E t \in DOMAIN policy.tools : t = decision.resource) ->
                   decision.result = policy.tools[decision.resource].require_confirmation
              [] OTHER -> decision.result = FALSE

\* A read of a path whose governing rule asks for confirmation of changes.
C31_Witness ==
    /\ policy.folders = << FolderPolicy(<<"a">>, "read_write", TRUE, TRUE) >>
    /\ decision.call = "requires_confirmation"
    /\ decision.action = "read"
    /\ decision.resource = <<"a", "x">>
    /\ decision.result = FALSE

\* C37: on the path of every file question, under every policy, a path that
\* can be deleted can be written and a path that can be written can be read.
C37_AccessMonotone ==
    decision.call \in FileCalls =>
        LET folders == policy.folders
            target == decision.resource
        IN  /\ can_delete_file(folders, target) => can_write_file(folders, target)
            /\ can_write_file(folders, target) => can_read_file(folders, target)

\* A path that can be deleted, under a shorter rule that grants nothing.
C37_Witness ==
    /\ policy.folders = << FolderPolicy(<<"a">>, "none", TRUE, FALSE),
                           FolderPolicy(<<"a", "b">>, "read_write", TRUE, FALSE) >>
    /\ decision.call = "can_delete_file"
    /\ decision.resource = <<"a", "b", "c">>
    /\ decision.result = TRUE

\* C18: once the manager has taken a decision, the audit log ends with an
\* entry for that decision's resource.
C18_DecisionsAudited ==
    decision.call # "none" =>
        /\ _audit_log # <<>>
        /\ _audit_log[Len(_audit_log)].resource = decision.resource

\* C32: the manager's log is the sequence of the entries handed to log_action
\* in call order; of the logs get_audit_log returned, each earlier one is a
\* prefix of each later one and of the manager's log; and the log changes
\* only by log_action, whatever the holders of returned lists do to them.
C32_AuditLogAppendOnly ==
    /\ [](/\ _audit_log = logged
          /\ \A k \in DOMAIN returned :
                /\ IsPrefix(returned[k].at_return, _audit_log)
                /\ \A j \in DOMAIN returned :
                      j <= k => IsPrefix(returned[j].at_return, returned[k].at_return))
    /\ [][logged' = logged => _audit_log' = _audit_log]_vars

\* Two lists returned at different lengths of the log, the earlier one changed
\* by its holder since.
C32_Witness ==
    /\ Len(returned) = 2
    /\ Len(returned[1].at_return) = 1
    /\ Len(returned[2].at_return) = 2
    /\ Contents(returned[1]) # returned[1].at_return
    /\ Len(_audit_log) = 3

----------------------------------------------------------------------------
(* Properties of the Sandbox Runtime *)

TimedOut == call.outcome = [kind |-> "raised", error |-> "TimeoutError"]

\* C19: once run_command has handed its result or its exception to the
\* caller, the container of that invocation does not exist.
C19_TornDownAfterRun ==
    call.pc = "delivered" => call.id \notin containers

\* C20: when the caller has the timeout error of an invocation, the removal
\* of that invocation's container has been carried out and the container does
\* not exist.
C20_TeardownBeforeTimeoutSurfaces ==
    (call.pc = "delivered" /\ TimedOut)
        => /\ call.cleanup = "done"
           /\ call.id \notin containers

Cancelled == call.outcome = [kind |-> "raised", error |-> "CancelledError"]

\* C21: an invocation, a "docker run" process or a container exists only for
\* a sandbox whose construction found the engine reachable; a construction
\* that found it unreachable was refused; and no command has run outside a
\* container.
C21_HealthCheckGatesCommands ==
    /\ (call.id > 0 \/ clients # {} \/ created # {})
         => sandbox = [state |-> "ready", docker_version |-> "ok"]
    /\ sandbox.docker_version = "failed" => sandbox.state = "refused"
    /\ sandbox.state = "refused" => call = NoCall
    /\ host_runs = {}

\* A construction refused because the engine is unreachable.
C21_Witness ==
    /\ ~engine
    /\ sandbox = [state |-> "refused", docker_version |-> "failed"]
    /\ call = NoCall
    /\ clients = {}

\* C29: when the failure of a cancelled invocation has reached the Executor,
\* the removal of that invocation's container has been carried out and the
\* container does not exist.
C29_CancelTearsDownFirst ==
    (call.pc = "delivered" /\ Cancelled)
        => /\ call.cleanup = "done"
           /\ call.id \notin containers

\* C30: the finally clause and the unwinding after it leave the outcome of
\* the invocation as it was, and every delivered invocation has an outcome.
C30_CleanupKeepsOutcome ==
    /\ [][ call.pc \in {"finally", "unwound"} => call'.outcome = call.outcome ]_vars
    /\ [](call.pc = "delivered" => call.outcome # NoOutcome)

\* A command that returned 0 and whose removal then failed.
C30_Witness ==
    /\ call.pc = "delivered"
    /\ call.cleanup = "failed"
    /\ call.outcome = [kind |-> "returned", returncode |-> 0]

====
